---------------------------- MODULE Spec2Model ----------------------------
(***************************************************************************)
(* A model of src/src/utils.py (PEARL, A3C training utilities).            *)
(*                                                                         *)
(* The functions of utils.py are independent of each other, so each gets   *)
(* its own group of variables and its own specification:                   *)
(*   SpecReturn  the discounted-return loop of sync_and_optimize (62-66)   *)
(*   SpecFile    generate_model_filename                                   *)
(*   SpecLog     log_episode_results, several workers on one queue         *)
(*   SpecTensor  numpy_to_tensor and the way back, tensor.numpy()          *)
(*   SpecLoss    compute_epoch_loss                                        *)
(*   SpecSync    sync_and_optimize, several workers on one global model    *)
(* A specification leaves the variables of the other groups at their idle  *)
(* values.                                                                 *)
(*                                                                         *)
(* Numbers: Python floats and tensor elements are modelled by integers     *)
(* (exact arithmetic); rounding is outside the model.                      *)
(***************************************************************************)
EXTENDS Integers, Sequences, FiniteSets, TLC

VARIABLES
    \* -- sync_and_optimize, lines 62-66 (one call)
    buffer_reward,      \* the reward list passed in
    gamma,              \* the discount passed in
    value,              \* the running return
    buffer_v_target,    \* the list being built
    todo,               \* rewards the reversed() iterator still has to yield
    rpc,                \* "loop" | "done"
    \* -- generate_model_filename
    fcalls,             \* the calls made so far, each with its arguments and result
    \* -- log_episode_results
    result_queue,       \* the shared queue, oldest record first
    lpc,                \* per worker: "idle" | "put"
    largs,              \* per worker: the arguments of the call in progress
    ldone,              \* per worker: the arguments of its completed calls
    \* -- numpy_to_tensor
    theap,              \* buffer id -> element data
    tcaller,            \* the caller's ndarray: [dtype, shape, buf]
    targ,               \* the dtype argument
    ttensor,            \* the returned tensor, or None
    tback,              \* tensor.numpy() of the returned tensor, or None
    tconverted,         \* whether astype ran in the call
    torig,              \* the elements of the caller's array before the call
    \* -- compute_epoch_loss
    data_loader,        \* the batches; a batch is the per-sample losses of its inputs
    total_loss,
    num_samples,
    lnext,              \* index of the next batch the for loop takes
    epc,                \* "start" | "loop" | "done"
    training,           \* the model's training flag (model.eval() clears it)
    epoch_result,       \* None until the return statement, then its outcome
    \* -- sync_and_optimize, lines 68-86 (workers on one global model)
    set_to_none,        \* what optimizer.zero_grad() does: TRUE drops the gradients, FALSE zeroes them in place
    gparam,             \* global model: parameter values
    ggrad,              \* global model: per parameter None or <<w, i>>, the gradient tensor of worker w's parameter i
    opt_steps,          \* optimizer state: number of step() calls
    lparam,             \* per worker: local parameter values
    lgrad,              \* per worker: per parameter None or <<v>>, the value of its gradient tensor
    pc,                 \* per worker: the statement it is at
    k,                  \* per worker: index of the zip() loop
    calls,              \* calls of sync_and_optimize started so far
    trace,              \* per worker: the statements of the current call that completed, in order
    copied,             \* per worker: per global parameter, what the zip() loop assigned in this call
    applied,            \* per worker: per global parameter, the gradient its step() used in this call
    post_step,          \* per worker: the global parameters right after its step()
    disturbed,          \* per worker: another worker's zero_grad or copy ran between its copy loop and its step
    interrupted         \* per worker: another worker ran during its call

\* Python's None; a present value x is the one-element tuple <<x>>
None == <<>>
Some(x) == <<x>>

RECURSIVE SumSeq(_)
\* sum of a sequence of integers
SumSeq(s) == IF s = <<>> THEN 0 ELSE s[1] + SumSeq(Tail(s))

\* number of positions of s holding x
Count(s, x) == Cardinality({i \in DOMAIN s : s[i] = x})

\* sequences over S of length 0..n
SeqsUpTo(S, n) == UNION {[1..m -> S] : m \in 0..n}

---------------------------------------------------------------------------
(***************************************************************************)
(* sync_and_optimize, lines 62-66: the discounted returns                  *)
(***************************************************************************)
MaxRewards == 3
MaxReward == 2
MaxGamma == 2

Rewards == -1..MaxReward
Gammas == 0..MaxGamma

returnVars == <<buffer_reward, gamma, value, buffer_v_target, todo, rpc>>

\* the caller's arguments; lines 62-63: value = 0, buffer_v_target = []
ReturnInit ==
    /\ buffer_reward \in SeqsUpTo(Rewards, MaxRewards)
    /\ gamma \in Gammas
    /\ value = 0
    /\ buffer_v_target = <<>>
    /\ todo = Len(buffer_reward)
    /\ rpc = "loop"

ReturnIdle ==
    /\ buffer_reward = <<>>
    /\ gamma = 0
    /\ value = 0
    /\ buffer_v_target = <<>>
    /\ todo = 0
    /\ rpc = "idle"

\* the discount applied to the reward as well
DiscountMutant(reward, g, v) == g * (reward + v)
\* line 65
Discount(reward, g, v) == reward + g * v

\* line 66: list.insert(0, v)
InsertFront(list, v) == <<v>> \o list

\* one iteration of the for loop; reversed() yields the last unvisited reward
ReturnStep ==
    /\ rpc = "loop"
    /\ todo > 0
    /\ value' = Discount(buffer_reward[todo], gamma, value)
    /\ buffer_v_target' = InsertFront(buffer_v_target, value')
    /\ todo' = todo - 1
    /\ UNCHANGED <<buffer_reward, gamma, rpc>>

\* the iterator is exhausted: the loop ends
ReturnExit ==
    /\ rpc = "loop"
    /\ todo = 0
    /\ rpc' = "done"
    /\ UNCHANGED <<buffer_reward, gamma, value, buffer_v_target, todo>>


---------------------------------------------------------------------------
(***************************************************************************)
(* generate_model_filename                                                 *)
(***************************************************************************)
MaxFileCalls == 3

Prefixes == {"", "run_"}
ModelNames == {"Encoder", "Decoder"}
\* (input_size, max_global_episodes) of the models the trainer saves
SizesAndEpisodes == {<<4, 100>>, <<12, 7>>}
StepCounts == {None, Some(0), Some(5)}

fileVars == <<fcalls>>

FileInit == fcalls = <<>>

FileIdle == fcalls = <<>>

Digit(d) ==
    CASE d = 0 -> "0" [] d = 1 -> "1" [] d = 2 -> "2" [] d = 3 -> "3"
      [] d = 4 -> "4" [] d = 5 -> "5" [] d = 6 -> "6" [] d = 7 -> "7"
      [] d = 8 -> "8" [] d = 9 -> "9"

RECURSIVE FormatInt(_)
\* what an f-string makes of an int: its decimal digits, "-" first if negative
FormatInt(n) ==
    IF n < 0 THEN "-" \o FormatInt(-n)
    ELSE IF n < 10 THEN Digit(n)
    ELSE FormatInt(n \div 10) \o Digit(n % 10)

\* a file name that carries the number of the call (hidden state between calls)
GenerateModelFilenameMutant(prefix, model_name, input_size, max_global_episodes, self_adjusted_task_steps) ==
    (IF model_name = "Encoder" THEN "A3C&" ELSE prefix \o "A3C_")
        \o model_name \o FormatInt(input_size) \o "-1"
        \o (IF self_adjusted_task_steps # None
              THEN (IF model_name = "Encoder" THEN "_" ELSE "_recon_")
                       \o FormatInt(self_adjusted_task_steps[1]) \o "N"
              ELSE "")
        \o "_ep" \o FormatInt(max_global_episodes)
        \o (IF Len(fcalls) = 0 THEN "" ELSE "_" \o FormatInt(Len(fcalls)))

\* a step count of 0 taken for a missing one ("if self_adjusted_task_steps:")
GivenMutant(steps) == steps # None /\ steps[1] # 0
\* lines 113, 119: "is not None"
Given(steps) == steps # None

\* lines 111-124; gc.collect() has no effect on the result
GenerateModelFilename(prefix, model_name, input_size, max_global_episodes, self_adjusted_task_steps) ==
    IF model_name = "Encoder"
    THEN LET filename == "A3C&" \o model_name \o FormatInt(input_size) \o "-1"
         IN  IF Given(self_adjusted_task_steps)
             THEN filename \o "_" \o FormatInt(self_adjusted_task_steps[1]) \o "N_ep"
                           \o FormatInt(max_global_episodes)
             ELSE filename \o "_ep" \o FormatInt(max_global_episodes)
    ELSE LET filename == prefix \o "A3C_" \o model_name \o FormatInt(input_size) \o "-1"
         IN  IF Given(self_adjusted_task_steps)
             THEN filename \o "_recon_" \o FormatInt(self_adjusted_task_steps[1]) \o "N_ep"
                           \o FormatInt(max_global_episodes)
             ELSE filename \o "_ep" \o FormatInt(max_global_episodes)

\* one call by the trainer, recorded with its result
FileCall ==
    /\ Len(fcalls) < MaxFileCalls
    /\ \E prefix \in Prefixes, model_name \in ModelNames, se \in SizesAndEpisodes,
          self_adjusted_task_steps \in StepCounts :
          fcalls' = Append(fcalls,
              [prefix |-> prefix, model_name |-> model_name, input_size |-> se[1],
               max_global_episodes |-> se[2],
               self_adjusted_task_steps |-> self_adjusted_task_steps,
               filename |-> GenerateModelFilename(prefix, model_name, se[1], se[2],
                               self_adjusted_task_steps)])


---------------------------------------------------------------------------
(***************************************************************************)
(* log_episode_results: workers of the trainer share one result queue      *)
(***************************************************************************)
MaxLogCalls == 3

LogWorkers == {"w1", "w2"}
EpisodeRewards == {-1, 2}
EpisodeSpls == {0, 1}
LogArgs == [episode_reward : EpisodeRewards, success : BOOLEAN, episode_spl : EpisodeSpls]

logVars == <<result_queue, lpc, largs, ldone>>

NoArgs == [episode_reward |-> 0, success |-> FALSE, episode_spl |-> 0]

LogInit ==
    /\ result_queue = <<>>
    /\ lpc = [w \in LogWorkers |-> "idle"]
    /\ largs = [w \in LogWorkers |-> NoArgs]
    /\ ldone = <<>>

LogIdle ==
    /\ result_queue = <<>>
    /\ lpc = <<>>
    /\ largs = <<>>
    /\ ldone = <<>>

\* the record with reward and SPL in each other's place
EpisodeRecordMutant(episode_reward, success, episode_spl) == <<episode_spl, success, episode_reward>>
\* line 97: the list literal
EpisodeRecord(episode_reward, success, episode_spl) == <<episode_reward, success, episode_spl>>

\* line 97: result_queue.put(item); the queue takes the item whole
QueuePut(queue, item) == Append(queue, item)

\* a worker calls log_episode_results(result_queue, ...): the arguments are bound
LogCall(w) ==
    /\ lpc[w] = "idle"
    /\ Len(ldone) + Cardinality({v \in LogWorkers : lpc[v] = "put"}) < MaxLogCalls
    /\ \E a \in LogArgs : largs' = [largs EXCEPT ![w] = a]
    /\ lpc' = [lpc EXCEPT ![w] = "put"]
    /\ UNCHANGED <<result_queue, ldone>>

\* line 97, then the return
LogPut(w) ==
    /\ lpc[w] = "put"
    /\ result_queue' = QueuePut(result_queue,
            EpisodeRecord(largs[w].episode_reward, largs[w].success, largs[w].episode_spl))
    /\ ldone' = Append(ldone, largs[w])
    /\ lpc' = [lpc EXCEPT ![w] = "idle"]
    /\ largs' = [largs EXCEPT ![w] = NoArgs]


---------------------------------------------------------------------------
(***************************************************************************)
(* numpy_to_tensor, and tensor.numpy() for the way back                    *)
(*                                                                         *)
(* An element is an integer counting halves (3 is 1.5), so that a cast to  *)
(* an integer dtype has something to truncate.  Arrays and tensors refer   *)
(* to their element buffer by its id in theap: astype makes a new buffer,  *)
(* from_numpy and numpy() share the one they are given.                    *)
(***************************************************************************)
MaxElems == 2

Dtypes == {"float32", "int64", "uint8"}
ElemsOf(dtype) ==
    CASE dtype = "float32" -> {-3, 1, 4}
      [] dtype = "int64" -> {-2, 600}
      [] dtype = "uint8" -> {0, 510}
Shapes == {<<n>> : n \in 0..MaxElems} \cup {<<1, n>> : n \in 1..MaxElems}
Size(shape) == IF Len(shape) = 1 THEN shape[1] ELSE shape[1] * shape[2]

tensorVars == <<theap, tcaller, targ, ttensor, tback, tconverted, torig>>

TensorInit ==
    /\ \E dtype \in Dtypes, shape \in Shapes :
          /\ tcaller = [dtype |-> dtype, shape |-> shape, buf |-> 1]
          /\ \E data \in [1..Size(shape) -> ElemsOf(dtype)] : theap = <<data>> /\ torig = data
    /\ targ \in Dtypes
    /\ ttensor = None
    /\ tback = None
    /\ tconverted = FALSE

TensorIdle ==
    /\ theap = <<>>
    /\ tcaller = [dtype |-> "float32", shape |-> <<0>>, buf |-> 0]
    /\ targ = "float32"
    /\ ttensor = None
    /\ tback = None
    /\ tconverted = FALSE
    /\ torig = <<>>

\* ndarray.astype on one element: to an integer dtype the fraction is cut
\* (towards zero) and uint8 wraps modulo 256; to float32 nothing is lost here
Cast(v, dtype) ==
    LET whole == IF v >= 0 THEN 2 * (v \div 2) ELSE -(2 * ((-v) \div 2))
    IN  CASE dtype = "float32" -> v
          [] dtype = "int64" -> whole
          [] dtype = "uint8" -> whole % 512

\* a conversion that always runs
NeedsCastMutant(array_dtype, dtype) == TRUE
\* line 27
NeedsCast(array_dtype, dtype) == array_dtype # dtype

\* torch.from_numpy: the tensor dtype of a numpy dtype
TorchDtype(dtype) == "torch." \o dtype
\* tensor.numpy(): the numpy dtype of a tensor dtype
NumpyDtype(tdtype) ==
    CASE tdtype = "torch.float32" -> "float32"
      [] tdtype = "torch.int64" -> "int64"
      [] tdtype = "torch.uint8" -> "uint8"

\* line 28: array.astype(dtype) returns a new array on a new buffer
Astype(heap, array, dtype) ==
    [array |-> [dtype |-> dtype, shape |-> array.shape, buf |-> Len(heap) + 1],
     heap |-> Append(heap, [i \in DOMAIN heap[array.buf] |-> Cast(heap[array.buf][i], dtype)])]

\* line 29: torch.from_numpy(array) shares the array's buffer
FromNumpy(array) == [dtype |-> TorchDtype(array.dtype), shape |-> array.shape, buf |-> array.buf]

\* lines 27-29
NumpyToTensor ==
    /\ ttensor = None
    /\ LET cast == NeedsCast(tcaller.dtype, targ)
           r == IF cast THEN Astype(theap, tcaller, targ)
                        ELSE [array |-> tcaller, heap |-> theap]
       IN  /\ tconverted' = cast
           /\ theap' = r.heap
           /\ ttensor' = Some(FromNumpy(r.array))
    /\ UNCHANGED <<tcaller, targ, tback, torig>>

\* the caller turns the tensor back into an array
TensorNumpy ==
    /\ ttensor # None
    /\ tback = None
    /\ tback' = Some([dtype |-> NumpyDtype(ttensor[1].dtype), shape |-> ttensor[1].shape,
                       buf |-> ttensor[1].buf])
    /\ UNCHANGED <<theap, tcaller, targ, ttensor, tconverted, torig>>


---------------------------------------------------------------------------
(***************************************************************************)
(* compute_epoch_loss                                                      *)
(*                                                                         *)
(* A batch is given by the losses of its samples: loss_fn(model(inputs),   *)
(* inputs, reduction='sum') is their sum and inputs.size(0) their number.  *)
(* A data loader yields no empty batch.  The returned quotient is kept as  *)
(* the pair (num, den).                                                    *)
(***************************************************************************)
MaxBatches == 2
MaxBatchSize == 2

SampleLosses == {1, 3}
Batches == SeqsUpTo(SampleLosses, MaxBatchSize) \ {<<>>}

lossVars == <<data_loader, total_loss, num_samples, lnext, epc, training, epoch_result>>

LossInit ==
    /\ data_loader \in SeqsUpTo(Batches, MaxBatches)
    /\ training \in BOOLEAN
    /\ total_loss = 0
    /\ num_samples = 0
    /\ lnext = 1
    /\ epc = "start"
    /\ epoch_result = None

LossIdle ==
    /\ data_loader = <<>>
    /\ training = FALSE
    /\ total_loss = 0
    /\ num_samples = 0
    /\ lnext = 1
    /\ epc = "idle"
    /\ epoch_result = None

\* line 134: the sum-reduced loss of a batch
BatchLoss(batch) == SumSeq(batch)

\* batches counted instead of samples
BatchSizeMutant(batch) == 1
\* line 135: inputs.size(0)
BatchSize(batch) == Len(batch)

\* line 137: "/" of a number by an int; Python raises on a zero divisor
Divide(num, den) ==
    IF den = 0 THEN [kind |-> "ZeroDivisionError", num |-> 0, den |-> 0]
    ELSE [kind |-> "value", num |-> num, den |-> den]

\* lines 128-129
EpochStart ==
    /\ epc = "start"
    /\ training' = FALSE
    /\ total_loss' = 0
    /\ num_samples' = 0
    /\ epc' = "loop"
    /\ UNCHANGED <<data_loader, lnext, epoch_result>>

\* lines 131-136: one iteration of the for loop
EpochBatch ==
    /\ epc = "loop"
    /\ lnext <= Len(data_loader)
    /\ num_samples' = num_samples + BatchSize(data_loader[lnext])
    /\ total_loss' = total_loss + BatchLoss(data_loader[lnext])
    /\ lnext' = lnext + 1
    /\ UNCHANGED <<data_loader, epc, training, epoch_result>>

\* line 137, after the loader is exhausted
EpochReturn ==
    /\ epc = "loop"
    /\ lnext > Len(data_loader)
    /\ epoch_result' = Some(Divide(total_loss, num_samples))
    /\ epc' = "done"
    /\ UNCHANGED <<data_loader, total_loss, num_samples, lnext, training>>


---------------------------------------------------------------------------
(***************************************************************************)
(* sync_and_optimize, lines 68-86                                          *)
(*                                                                         *)
(* Workers are threads of one trainer: each has its own local model, all   *)
(* share the global model and the optimizer, which was built over the      *)
(* global model's parameters.  The function takes no lock, so the workers' *)
(* statements interleave.  A parameter is an integer; the optimizer is     *)
(* plain gradient descent with learning rate 1.  "global_param._grad =     *)
(* local_param.grad" makes the global gradient the very tensor of the      *)
(* local one, so ggrad holds references and lgrad the tensors' values.     *)
(***************************************************************************)
MaxSyncCalls == 2
NumGlobalParams == 2

SyncWorkers == {"a", "b"}
GlobalIdx == 1..NumGlobalParams
LocalSizes == {NumGlobalParams - 1, NumGlobalParams, NumGlobalParams + 1}
\* the gradient one backward pass adds to each parameter its loss depends on:
\* the workers see different episodes, so their gradients differ
GradOf(w) == IF w = "a" THEN 1 ELSE 2
\* the parameters a loss may depend on: all, or all but the last (a parameter
\* the loss does not depend on gets no gradient)
UsedSets(n) == {1..n, 1..(n - 1)}
Active == {"loss", "zero_grad", "backward", "copy", "step", "load_state_dict"}

syncVars == <<set_to_none, gparam, ggrad, opt_steps, lparam, lgrad, pc, k, calls, trace,
              copied, applied, post_step, disturbed, interrupted>>

\* worker "a" runs the architecture of the global model, the others any
LocalModels == {size \in [SyncWorkers -> LocalSizes] : size["a"] = NumGlobalParams}

NoGrads == [i \in GlobalIdx |-> None]

SyncInit ==
    /\ set_to_none \in BOOLEAN
    /\ gparam = [i \in GlobalIdx |-> 0]
    /\ ggrad = NoGrads
    /\ opt_steps = 0
    /\ \E size \in LocalModels :
          /\ lparam = [w \in SyncWorkers |-> [i \in 1..size[w] |-> 5]]
          /\ lgrad = [w \in SyncWorkers |-> [i \in 1..size[w] |-> None]]
    /\ pc = [w \in SyncWorkers |-> "idle"]
    /\ k = [w \in SyncWorkers |-> 1]
    /\ calls = 0
    /\ trace = [w \in SyncWorkers |-> <<>>]
    /\ copied = [w \in SyncWorkers |-> NoGrads]
    /\ applied = [w \in SyncWorkers |-> NoGrads]
    /\ post_step = [w \in SyncWorkers |-> None]
    /\ disturbed = [w \in SyncWorkers |-> FALSE]
    /\ interrupted = [w \in SyncWorkers |-> FALSE]

SyncIdle ==
    /\ set_to_none = TRUE
    /\ gparam = <<>>
    /\ ggrad = <<>>
    /\ opt_steps = 0
    /\ lparam = <<>>
    /\ lgrad = <<>>
    /\ pc = <<>>
    /\ k = <<>>
    /\ calls = 0
    /\ trace = <<>>
    /\ copied = <<>>
    /\ applied = <<>>
    /\ post_step = <<>>
    /\ disturbed = <<>>
    /\ interrupted = <<>>

\* the statements in an order that reloads the local model before the optimizer steps
AfterMutant(stage) ==
    CASE stage = "loss" -> "zero_grad"
      [] stage = "zero_grad" -> "backward"
      [] stage = "backward" -> "copy"
      [] stage = "copy" -> "load_state_dict"
      [] stage = "load_state_dict" -> "step"
      [] stage = "step" -> "done"
\* the statements in an order that steps the optimizer before the gradients are handed over
AfterStepFirst(stage) ==
    CASE stage = "loss" -> "zero_grad"
      [] stage = "zero_grad" -> "backward"
      [] stage = "backward" -> "step"
      [] stage = "step" -> "copy"
      [] stage = "copy" -> "load_state_dict"
      [] stage = "load_state_dict" -> "done"
\* lines 68-85: the statement that follows each statement
After(stage) ==
    CASE stage = "loss" -> "zero_grad"
      [] stage = "zero_grad" -> "backward"
      [] stage = "backward" -> "copy"
      [] stage = "copy" -> "step"
      [] stage = "step" -> "load_state_dict"
      [] stage = "load_state_dict" -> "done"

\* the value of the gradient tensor a global gradient refers to
Deref(ref) == IF ref = None THEN None ELSE lgrad[ref[1]][ref[2]]

\* a statement of w completed
Ran(w, stage) == trace' = [trace EXCEPT ![w] = Append(@, stage)]

\* w ran: every other worker that is inside a call has been interleaved with
Interleave(w) ==
    interrupted' = [v \in SyncWorkers |->
                       IF v # w /\ pc[v] \in Active THEN TRUE ELSE interrupted[v]]

\* w wrote the global gradients: workers between their copy loop and their step are hit
Disturb(w) ==
    disturbed' = [v \in SyncWorkers |->
                     IF v # w /\ pc[v] \in {"copy", "step"} THEN TRUE ELSE disturbed[v]]

\* the trainer calls sync_and_optimize for worker w
Call(w) ==
    /\ pc[w] \in {"idle", "done", "failed"}
    /\ calls < MaxSyncCalls
    /\ calls' = calls + 1
    /\ pc' = [pc EXCEPT ![w] = "loss"]
    /\ k' = [k EXCEPT ![w] = 1]
    /\ trace' = [trace EXCEPT ![w] = <<>>]
    /\ copied' = [copied EXCEPT ![w] = NoGrads]
    /\ applied' = [applied EXCEPT ![w] = NoGrads]
    /\ post_step' = [post_step EXCEPT ![w] = None]
    /\ disturbed' = [disturbed EXCEPT ![w] = FALSE]
    /\ interrupted' = [v \in SyncWorkers |->
                          IF v = w THEN FALSE
                          ELSE IF pc[v] \in Active THEN TRUE ELSE interrupted[v]]
    /\ UNCHANGED <<set_to_none, gparam, ggrad, opt_steps, lparam, lgrad>>

\* lines 62-76: the targets, the stacked buffers and local_model.loss_function return
LossOk(w) ==
    /\ pc[w] = "loss"
    /\ pc' = [pc EXCEPT ![w] = After("loss")]
    /\ Ran(w, "loss")
    /\ Interleave(w)
    /\ UNCHANGED <<set_to_none, gparam, ggrad, opt_steps, lparam, lgrad, k, calls,
                   copied, applied, post_step, disturbed>>

\* a failure that has cleared the optimizer's gradients before it surfaces
LossFailMutant(w) ==
    /\ pc[w] = "loss"
    /\ pc' = [pc EXCEPT ![w] = "failed"]
    /\ Ran(w, "loss raised")
    /\ Interleave(w)
    /\ ggrad' = NoGrads
    /\ opt_steps' = opt_steps + 1
    /\ UNCHANGED <<set_to_none, gparam, lparam, lgrad, k, calls,
                   copied, applied, post_step, disturbed>>
\* lines 68-76: torch.vstack or loss_function raises; nothing catches it
LossFail(w) ==
    /\ pc[w] = "loss"
    /\ pc' = [pc EXCEPT ![w] = "failed"]
    /\ Ran(w, "loss raised")
    /\ Interleave(w)
    /\ UNCHANGED <<set_to_none, gparam, ggrad, opt_steps, lparam, lgrad, k, calls,
                   copied, applied, post_step, disturbed>>

\* line 78: optimizer.zero_grad() over the global parameters
ZeroGrad(w) ==
    /\ pc[w] = "zero_grad"
    /\ IF set_to_none
       THEN /\ ggrad' = NoGrads
            /\ lgrad' = lgrad
       ELSE /\ ggrad' = ggrad
            /\ lgrad' = [v \in SyncWorkers |-> [i \in DOMAIN lgrad[v] |->
                             IF i \in GlobalIdx /\ ggrad[i] = <<v, i>> THEN Some(0)
                             ELSE lgrad[v][i]]]
    /\ pc' = [pc EXCEPT ![w] = After("zero_grad")]
    /\ Ran(w, "zero_grad")
    /\ Interleave(w)
    /\ Disturb(w)
    /\ UNCHANGED <<set_to_none, gparam, opt_steps, lparam, k, calls,
                   copied, applied, post_step>>

\* autograd adds g to the gradient of each local parameter in used: a parameter
\* without a gradient tensor gets one, an existing tensor is added to in place
Accumulate(w, used, g) ==
    [lgrad EXCEPT ![w] = [i \in DOMAIN lgrad[w] |->
        IF i \notin used THEN lgrad[w][i]
        ELSE IF lgrad[w][i] = None THEN Some(g)
        ELSE Some(lgrad[w][i][1] + g)]]

\* line 79: loss.backward() returns
BackwardOk(w) ==
    /\ pc[w] = "backward"
    /\ \E used \in UsedSets(Len(lgrad[w])) : lgrad' = Accumulate(w, used, GradOf(w))
    /\ pc' = [pc EXCEPT ![w] = After("backward")]
    /\ k' = [k EXCEPT ![w] = 1]
    /\ Ran(w, "backward")
    /\ Interleave(w)
    /\ UNCHANGED <<set_to_none, gparam, ggrad, opt_steps, lparam, calls,
                   copied, applied, post_step, disturbed>>

\* line 79: loss.backward() raises, maybe after part of the gradients were accumulated
BackwardFail(w) ==
    /\ pc[w] = "backward"
    /\ \E used \in UsedSets(Len(lgrad[w])) : lgrad' = Accumulate(w, used, GradOf(w))
    /\ pc' = [pc EXCEPT ![w] = "failed"]
    /\ Ran(w, "backward raised")
    /\ Interleave(w)
    /\ UNCHANGED <<set_to_none, gparam, ggrad, opt_steps, lparam, k, calls,
                   copied, applied, post_step, disturbed>>

Min(x, y) == IF x <= y THEN x ELSE y

\* an assignment that also hands over a missing gradient
CopyGradMutant(gg, w, i) == [gg EXCEPT ![i] = IF lgrad[w][i] # None THEN <<w, i>> ELSE None]
\* lines 81-82: the global gradients after the i-th pair of the zip()
CopyGrad(gg, w, i) == IF lgrad[w][i] # None THEN [gg EXCEPT ![i] = <<w, i>>] ELSE gg

\* lines 80-82: one iteration of the for loop; zip() stops at the shorter list
CopyStep(w) ==
    /\ pc[w] = "copy"
    /\ k[w] <= Min(Len(lparam[w]), NumGlobalParams)
    /\ ggrad' = CopyGrad(ggrad, w, k[w])
    /\ copied' = [copied EXCEPT ![w][k[w]] = lgrad[w][k[w]]]
    /\ k' = [k EXCEPT ![w] = k[w] + 1]
    /\ Interleave(w)
    /\ Disturb(w)
    /\ UNCHANGED <<set_to_none, gparam, opt_steps, lparam, lgrad, pc, calls, trace,
                   applied, post_step>>

\* line 80: zip() is exhausted
CopyExit(w) ==
    /\ pc[w] = "copy"
    /\ k[w] > Min(Len(lparam[w]), NumGlobalParams)
    /\ pc' = [pc EXCEPT ![w] = After("copy")]
    /\ Ran(w, "copy")
    /\ Interleave(w)
    /\ UNCHANGED <<set_to_none, gparam, ggrad, opt_steps, lparam, lgrad, k, calls,
                   copied, applied, post_step, disturbed>>

\* line 83: optimizer.step() moves each global parameter that has a gradient
OptStep(w) ==
    /\ pc[w] = "step"
    /\ gparam' = [i \in GlobalIdx |->
                     IF ggrad[i] = None THEN gparam[i] ELSE gparam[i] - Deref(ggrad[i])[1]]
    /\ opt_steps' = opt_steps + 1
    /\ applied' = [applied EXCEPT ![w] = [i \in GlobalIdx |-> Deref(ggrad[i])]]
    /\ post_step' = [post_step EXCEPT ![w] = Some(gparam')]
    /\ pc' = [pc EXCEPT ![w] = After("step")]
    /\ Ran(w, "step")
    /\ Interleave(w)
    /\ UNCHANGED <<set_to_none, ggrad, lparam, lgrad, k, calls, copied, disturbed>>

\* line 85: local_model.load_state_dict(global_model.state_dict()) copies the
\* parameters both models have, then raises if either has one the other lacks
LoadStateDict(w) ==
    /\ pc[w] = "load_state_dict"
    /\ lparam' = [lparam EXCEPT ![w] = [i \in DOMAIN lparam[w] |->
                     IF i \in GlobalIdx THEN gparam[i] ELSE lparam[w][i]]]
    /\ IF Len(lparam[w]) = NumGlobalParams
       THEN /\ pc' = [pc EXCEPT ![w] = After("load_state_dict")]
            /\ Ran(w, "load_state_dict")
       ELSE /\ pc' = [pc EXCEPT ![w] = "failed"]
            /\ Ran(w, "load_state_dict raised")
    /\ Interleave(w)
    /\ UNCHANGED <<set_to_none, gparam, ggrad, opt_steps, lgrad, k, calls,
                   copied, applied, post_step, disturbed>>

---------------------------------------------------------------------------
(***************************************************************************)
(* The specifications                                                      *)
(***************************************************************************)
vars == <<returnVars, fileVars, logVars, tensorVars, lossVars, syncVars>>

otherThanReturn == <<fileVars, logVars, tensorVars, lossVars, syncVars>>

InitReturn ==
    /\ ReturnInit
    /\ FileIdle
    /\ LogIdle
    /\ TensorIdle
    /\ LossIdle
    /\ SyncIdle

NextReturn ==
    \/ ReturnStep /\ UNCHANGED otherThanReturn
    \/ ReturnExit /\ UNCHANGED otherThanReturn

SpecReturn == InitReturn /\ [][NextReturn]_vars

otherThanFile == <<returnVars, logVars, tensorVars, lossVars, syncVars>>

InitFile ==
    /\ ReturnIdle
    /\ FileInit
    /\ LogIdle
    /\ TensorIdle
    /\ LossIdle
    /\ SyncIdle

NextFile ==
    \/ FileCall /\ UNCHANGED otherThanFile

SpecFile == InitFile /\ [][NextFile]_vars

otherThanLog == <<returnVars, fileVars, tensorVars, lossVars, syncVars>>

InitLog ==
    /\ ReturnIdle
    /\ FileIdle
    /\ LogInit
    /\ TensorIdle
    /\ LossIdle
    /\ SyncIdle

NextLog ==
    \/ \E w \in LogWorkers : LogCall(w) /\ UNCHANGED otherThanLog
    \/ \E w \in LogWorkers : LogPut(w) /\ UNCHANGED otherThanLog

SpecLog == InitLog /\ [][NextLog]_vars

otherThanTensor == <<returnVars, fileVars, logVars, lossVars, syncVars>>

InitTensor ==
    /\ ReturnIdle
    /\ FileIdle
    /\ LogIdle
    /\ TensorInit
    /\ LossIdle
    /\ SyncIdle

NextTensor ==
    \/ NumpyToTensor /\ UNCHANGED otherThanTensor
    \/ TensorNumpy /\ UNCHANGED otherThanTensor

SpecTensor == InitTensor /\ [][NextTensor]_vars

otherThanLoss == <<returnVars, fileVars, logVars, tensorVars, syncVars>>

InitLoss ==
    /\ ReturnIdle
    /\ FileIdle
    /\ LogIdle
    /\ TensorIdle
    /\ LossInit
    /\ SyncIdle

NextLoss ==
    \/ EpochStart /\ UNCHANGED otherThanLoss
    \/ EpochBatch /\ UNCHANGED otherThanLoss
    \/ EpochReturn /\ UNCHANGED otherThanLoss

SpecLoss == InitLoss /\ [][NextLoss]_vars

otherThanSync == <<returnVars, fileVars, logVars, tensorVars, lossVars>>

InitSync ==
    /\ ReturnIdle
    /\ FileIdle
    /\ LogIdle
    /\ TensorIdle
    /\ LossIdle
    /\ SyncInit

NextSync ==
    \/ \E w \in SyncWorkers : Call(w) /\ UNCHANGED otherThanSync
    \/ \E w \in SyncWorkers : LossOk(w) /\ UNCHANGED otherThanSync
    \/ \E w \in SyncWorkers : LossFail(w) /\ UNCHANGED otherThanSync
    \/ \E w \in SyncWorkers : ZeroGrad(w) /\ UNCHANGED otherThanSync
    \/ \E w \in SyncWorkers : BackwardOk(w) /\ UNCHANGED otherThanSync
    \/ \E w \in SyncWorkers : BackwardFail(w) /\ UNCHANGED otherThanSync
    \/ \E w \in SyncWorkers : CopyStep(w) /\ UNCHANGED otherThanSync
    \/ \E w \in SyncWorkers : CopyExit(w) /\ UNCHANGED otherThanSync
    \/ \E w \in SyncWorkers : OptStep(w) /\ UNCHANGED otherThanSync
    \/ \E w \in SyncWorkers : LoadStateDict(w) /\ UNCHANGED otherThanSync

SpecSync == InitSync /\ [][NextSync]_vars

---------------------------------------------------------------------------
(***************************************************************************)
(* The properties                                                          *)
(***************************************************************************)

\* C1: when the loop of lines 62-66 has ended, buffer_v_target is as long as
\* buffer_reward, its last element is the last reward, and every other element
\* is its reward plus gamma times the next element; no rewards, no targets.
C1_DiscountedReturns ==
    rpc = "done" =>
        /\ Len(buffer_v_target) = Len(buffer_reward)
        /\ \A i \in 1..Len(buffer_reward) :
              buffer_v_target[i] =
                  IF i = Len(buffer_reward) THEN buffer_reward[i]
                  ELSE buffer_reward[i] + gamma * buffer_v_target[i + 1]
        /\ (buffer_reward = <<>> => buffer_v_target = <<>>)

C1_Witness ==
    /\ rpc = "done"
    /\ Len(buffer_reward) = MaxRewards
    /\ gamma = 2
    /\ buffer_v_target[1] # buffer_reward[1]
    /\ buffer_reward[Len(buffer_reward)] # 0

SameArguments(c, d) ==
    /\ c.prefix = d.prefix
    /\ c.model_name = d.model_name
    /\ c.input_size = d.input_size
    /\ c.max_global_episodes = d.max_global_episodes
    /\ c.self_adjusted_task_steps = d.self_adjusted_task_steps

\* C2: any two calls of generate_model_filename with the same arguments returned
\* the same string, whatever was called in between, and every call with
\* model_name "Encoder", input_size 4, max_global_episodes 100 and no step count
\* returned "A3C&Encoder4-1_ep100".
C2_Deterministic ==
    /\ \A i, j \in DOMAIN fcalls :
          SameArguments(fcalls[i], fcalls[j]) => fcalls[i].filename = fcalls[j].filename
    /\ \A i \in DOMAIN fcalls :
          ( /\ fcalls[i].model_name = "Encoder"
            /\ fcalls[i].input_size = 4
            /\ fcalls[i].max_global_episodes = 100
            /\ fcalls[i].self_adjusted_task_steps = None )
          => fcalls[i].filename = "A3C&Encoder4-1_ep100"

C2_Witness ==
    \E i, j \in DOMAIN fcalls :
        /\ i + 1 < j
        /\ SameArguments(fcalls[i], fcalls[j])
        /\ ~SameArguments(fcalls[i], fcalls[i + 1])
        /\ fcalls[i].model_name = "Encoder"
        /\ fcalls[i].input_size = 4
        /\ fcalls[i].max_global_episodes = 100
        /\ fcalls[i].self_adjusted_task_steps = None
        /\ fcalls[j].filename = "A3C&Encoder4-1_ep100"

\* the decimal numerals of the numbers the trainer passes
Numeral(n) ==
    CASE n = 0 -> "0" [] n = 4 -> "4" [] n = 5 -> "5" [] n = 7 -> "7"
      [] n = 12 -> "12" [] n = 100 -> "100"

\* the template of the file name, as the interface describes it
Template(c) ==
    IF c.model_name = "Encoder"
    THEN "A3C&" \o c.model_name \o Numeral(c.input_size) \o "-1"
             \o (IF c.self_adjusted_task_steps = None THEN ""
                 ELSE "_" \o Numeral(c.self_adjusted_task_steps[1]) \o "N")
             \o "_ep" \o Numeral(c.max_global_episodes)
    ELSE c.prefix \o "A3C_" \o c.model_name \o Numeral(c.input_size) \o "-1"
             \o (IF c.self_adjusted_task_steps = None THEN ""
                 ELSE "_recon_" \o Numeral(c.self_adjusted_task_steps[1]) \o "N")
             \o "_ep" \o Numeral(c.max_global_episodes)

\* C3: every file name returned follows the template: for model_name "Encoder"
\* "A3C&" name size "-1" then "_<steps>N_ep<episodes>" or "_ep<episodes>", the
\* prefix unused; for any other name prefix "A3C_" name size "-1" then
\* "_recon_<steps>N_ep<episodes>" or "_ep<episodes>"; a step count of 0 is a
\* given one, only None selects the form without steps.
C3_Template == \A i \in DOMAIN fcalls : fcalls[i].filename = Template(fcalls[i])

C3_Witness ==
    \E i, j \in DOMAIN fcalls :
        /\ fcalls[i].model_name = "Decoder"
        /\ fcalls[i].prefix = "run_"
        /\ fcalls[i].self_adjusted_task_steps = Some(0)
        /\ fcalls[i].filename = "run_A3C_Decoder12-1_recon_0N_ep7"
        /\ fcalls[j].model_name = "Encoder"
        /\ fcalls[j].prefix = "run_"
        /\ fcalls[j].filename = "A3C&Encoder4-1_5N_ep100"

C4_Records ==
    /\ Len(result_queue) = Len(ldone)
    /\ \A i \in DOMAIN result_queue : Len(result_queue[i]) = 3
    /\ \A a \in LogArgs :
          Count(result_queue, <<a.episode_reward, a.success, a.episode_spl>>) = Count(ldone, a)

C4_PutOnly ==
    \A w \in DOMAIN lpc :
        (lpc[w] = "put" /\ lpc'[w] = "idle") =>
            /\ result_queue' = Append(result_queue,
                   <<largs[w].episode_reward, largs[w].success, largs[w].episode_spl>>)
            /\ \A v \in DOMAIN lpc \ {w} : lpc'[v] = lpc[v] /\ largs'[v] = largs[v]

\* C4: the queue holds exactly the records of the calls that returned, each the
\* 3-element list [episode_reward, success, episode_spl] of one call, as often
\* as that call was made; and the step that puts a record appends it to the
\* queue and changes nothing else.
C4_OneRecordPerCall == []C4_Records /\ [][C4_PutOnly]_vars

C4_Witness ==
    /\ Len(result_queue) = MaxLogCalls
    /\ \E i, j \in DOMAIN result_queue : i < j /\ result_queue[i] = <<2, TRUE, 0>>
           /\ result_queue[j] = <<-1, FALSE, 1>>
    /\ \E i \in DOMAIN ldone : ldone[i] = [episode_reward |-> 2, success |-> TRUE, episode_spl |-> 0]

\* the tensor dtype that goes with a requested numpy dtype
RequestedDtype(dtype) ==
    CASE dtype = "float32" -> "torch.float32"
      [] dtype = "int64" -> "torch.int64"
      [] dtype = "uint8" -> "torch.uint8"

TotalLoss(loader) == SumSeq([i \in DOMAIN loader |-> SumSeq(loader[i])])
TotalSamples(loader) == SumSeq([i \in DOMAIN loader |-> Len(loader[i])])

\* C6 as claimed: for every loader, one without batches included, the call
\* returns the sum of the batches' summed losses divided by the number of
\* samples of all batches.
C6_AverageForEveryLoader ==
    epc = "done" =>
        /\ epoch_result[1].kind = "value"
        /\ epoch_result[1].den # 0
        /\ epoch_result[1].num * TotalSamples(data_loader)
               = TotalLoss(data_loader) * epoch_result[1].den

\* C6 as it holds: for every loader that yields a batch the call returns the
\* sum of the batches' summed losses divided by the number of samples of all
\* batches; for a loader that yields none the division raises ZeroDivisionError.
C6_AverageOrZeroDivision ==
    epc = "done" =>
        IF data_loader # <<>>
        THEN /\ epoch_result[1].kind = "value"
             /\ epoch_result[1].den # 0
             /\ epoch_result[1].num * TotalSamples(data_loader)
                    = TotalLoss(data_loader) * epoch_result[1].den
        ELSE epoch_result[1].kind = "ZeroDivisionError"

C6_Witness ==
    /\ epc = "done"
    /\ Len(data_loader) = 2
    /\ Len(data_loader[1]) # Len(data_loader[2])
    /\ epoch_result[1].kind = "value"
    /\ epoch_result[1].den = 3

\* the statements of a call that returned, as the function lists them
FullCall == <<"loss", "zero_grad", "backward", "copy", "step", "load_state_dict">>

C7_Returned ==
    \A w \in DOMAIN pc :
        pc[w] = "done" =>
            /\ trace[w] = FullCall
            /\ ~interrupted[w] => lparam[w] = post_step[w][1]

C7_Returning ==
    \A w \in DOMAIN pc :
        (pc[w] # "done" /\ pc'[w] = "done" /\ ~interrupted[w]) =>
            /\ pc[w] = "load_state_dict"
            /\ lparam'[w] = gparam'
            /\ gparam' = post_step[w][1]

\* C7: a call that returned ran loss, zero_grad, backward, the gradient copy,
\* step and load_state_dict in this order, load_state_dict last; if no other
\* worker ran during the call, the local parameters are, when it returns, the
\* global parameters as step() left them.
C7_OrderAndSync == []C7_Returned /\ [][C7_Returning]_vars

C7_Witness ==
    \E w \in DOMAIN pc :
        /\ pc[w] = "done"
        /\ ~interrupted[w]
        /\ \E i \in GlobalIdx : applied[w][i] # None /\ applied[w][i][1] # 0
        /\ lparam[w] = gparam
        /\ gparam # [i \in GlobalIdx |-> 0]

\* C8: an iteration of the zip() loop at index i makes the i-th global
\* gradient the i-th local gradient tensor if the local parameter has one, and
\* leaves it as it is if it has none; it runs only for i up to the shorter of
\* the two lists, leaves every other global gradient as it is, and changes no
\* local gradient.
C8_PositionalTransfer ==
    [][\A w \in DOMAIN pc :
          (pc[w] = "copy" /\ (k'[w] # k[w] \/ pc'[w] # pc[w])) =>
              /\ lgrad' = lgrad
              /\ k'[w] # k[w] => k[w] <= Len(lparam[w]) /\ k[w] <= NumGlobalParams
              /\ \A i \in GlobalIdx :
                    IF k'[w] # k[w] /\ i = k[w] /\ lgrad[w][i] # None
                    THEN ggrad'[i] = <<w, i>>
                    ELSE ggrad'[i] = ggrad[i]]_vars

C8_Witness ==
    \E w, v \in DOMAIN pc :
        /\ v # w
        /\ pc[w] = "step"
        /\ ggrad[1] = <<w, 1>>
        /\ Len(lgrad[w]) >= 2
        /\ lgrad[w][2] = None
        /\ ggrad[2] = <<v, 2>>
        /\ Len(lparam[v]) < NumGlobalParams + 1

\* C9 as claimed: in every interleaving, the gradients a worker's step() used
\* at the positions this worker copied are the gradients it copied in the call.
C9_StepAppliesOwnGradients ==
    \A w \in DOMAIN pc :
        post_step[w] # None =>
            \A i \in GlobalIdx : copied[w][i] # None => applied[w][i] = copied[w][i]

\* C9 as it holds: the gradients a worker's step() used at the positions this
\* worker copied are the gradients it copied in the call, provided no other
\* worker's zero_grad or gradient copy ran between the start of its copy loop
\* and its step().
C9_StepAppliesOwnGradientsIfUndisturbed ==
    \A w \in DOMAIN pc :
        (post_step[w] # None /\ ~disturbed[w]) =>
            \A i \in GlobalIdx : copied[w][i] # None => applied[w][i] = copied[w][i]

C9_Witness ==
    \E w \in DOMAIN pc :
        /\ post_step[w] # None
        /\ ~disturbed[w]
        /\ interrupted[w]
        /\ \A i \in GlobalIdx : copied[w][i] # None /\ applied[w][i] = copied[w][i]
        /\ gparam # [i \in GlobalIdx |-> 0]

C10_Failed ==
    \A w \in DOMAIN pc :
        pc[w] = "failed" =>
            /\ trace[w][1] = "loss raised" =>
                  trace[w] = <<"loss raised">> /\ copied[w] = NoGrads /\ post_step[w] = None
            /\ trace[w][Len(trace[w])] = "backward raised" =>
                  /\ trace[w] = <<"loss", "zero_grad", "backward raised">>
                  /\ copied[w] = NoGrads
                  /\ post_step[w] = None

C10_FailingStep ==
    \A w \in DOMAIN pc :
        /\ (pc[w] = "loss" /\ pc'[w] = "failed") =>
              UNCHANGED <<gparam, ggrad, opt_steps, lparam, lgrad>>
        /\ (pc[w] = "backward" /\ pc'[w] = "failed") =>
              UNCHANGED <<gparam, ggrad, opt_steps, lparam>>
        /\ pc[w] = "failed" =>
              \/ pc'[w] = "failed" /\ trace'[w] = trace[w] /\ lparam'[w] = lparam[w]
              \/ pc'[w] = "loss" /\ trace'[w] = <<>>

\* C10: a failure ends the call and no later statement of it runs: the step in
\* which loss_function (or the stacking before it) fails leaves the optimizer
\* state, the global parameters and gradients and the local parameters as they
\* are, and it is the only statement of the call; after a failing backward()
\* the call has copied no gradient, has not called step() and does not reload
\* the local model.
C10_FailuresPropagate == []C10_Failed /\ [][C10_FailingStep]_vars

C10_Witness ==
    \E w, v \in DOMAIN pc :
        /\ pc[w] = "failed"
        /\ trace[w] = <<"loss", "zero_grad", "backward raised">>
        /\ pc[v] = "failed"
        /\ trace[v] = <<"loss raised">>
        /\ \E i \in DOMAIN lgrad[w] : lgrad[w][i] # None

===========================================================================
